---- MODULE Spec2Model ----
(***************************************************************************)
(* A model of nanopolish's PoreModel (src/src/nanopolish_poremodel.cpp):   *)
(* the k-mer indexed emission table, its text parser and writer, the       *)
(* container constructor, bake_gaussian_parameters and update_states.      *)
(*                                                                         *)
(* Numbers.  float and double values are modelled as exact rationals       *)
(* <<n, d>> in lowest terms with d >= 0; the three values with d = 0 are   *)
(* the IEEE specials: <<1,0>> = +inf, <<-1,0>> = -inf, <<0,0>> = NaN.      *)
(* sqrt and log are kept symbolic (a tagged argument), which is exact for  *)
(* equality because both are injective on their finite domain.             *)
(***************************************************************************)
EXTENDS Integers, Sequences, FiniteSets, TLC

VARIABLES
    pc,        \* position of the driver: which call has returned last
    ndebug,    \* build configuration: TRUE when assert() is compiled out
    src,       \* the input the model was constructed from (file or container)
    result,    \* how the constructor call ended
    model,     \* the PoreModel object under test
    other,     \* a second PoreModel, the argument of update_states(other)
    written,   \* the lines write() put into the output file
    reparsed,  \* outcome and PoreModel of constructing from the written file
    hist,      \* the last two operations called on model, newest first
    pre,       \* model and other as they were before the last operation
    nops       \* number of operations called on model so far

vars == <<pc, ndebug, src, result, model, other, written, reparsed, hist, pre, nops>>

(***************************************************************************)
(* Bounds of the exploration.                                              *)
(***************************************************************************)
\* cardinality of the Alphabet passed to the constructors and to write()
NumSymbols == 2
\* longest k-mer length of an input table
MaxK == 2
\* number of bake / update_states calls explored on one model
MaxOps == 3

(***************************************************************************)
(* Rational arithmetic with IEEE specials.                                 *)
(***************************************************************************)
Abs(x) == IF x < 0 THEN -x ELSE x

Sign(x) == IF x < 0 THEN -1 ELSE IF x > 0 THEN 1 ELSE 0

RECURSIVE GCD(_, _)
GCD(a, b) == IF b = 0 THEN a ELSE GCD(b, a % b)

Rat(n, d) ==
    IF d = 0 THEN <<Sign(n), 0>>
    ELSE LET g == GCD(Abs(n), Abs(d))
             s == IF d < 0 THEN -1 ELSE 1
         IN  <<(s * n) \div g, (s * d) \div g>>

RInt(n) == <<n, 1>>

NaN == <<0, 0>>

IsFiniteR(a) == a[2] # 0

RMul(a, b) == Rat(a[1] * b[1], a[2] * b[2])

RAdd(a, b) ==
    IF a[2] = 0 /\ b[2] = 0
    THEN (IF a = b THEN a ELSE NaN)
    ELSE Rat(a[1] * b[2] + b[1] * a[2], a[2] * b[2])

RInv(a) ==
    IF a[2] = 0 THEN (IF a[1] = 0 THEN NaN ELSE <<0, 1>>)
    ELSE IF a[1] = 0 THEN <<1, 0>>
    ELSE <<Sign(a[1]) * a[2], Abs(a[1])>>

RDiv(a, b) == RMul(a, RInv(b))

\* pow(x, 3.0) and pow(x, 2.0)
Pow3(a) == RMul(a, RMul(a, a))

Pow2(a) == RMul(a, a)

\* sqrt(x) and log(x), symbolic
Sqrt(a) == [fn |-> "sqrt", arg |-> a]

Log(a) == [fn |-> "log", arg |-> a]

\* whether the value a sqrt / log result stands for is a finite number
IsFiniteFn(v) ==
    /\ IsFiniteR(v.arg)
    /\ IF v.fn = "log" THEN v.arg[1] > 0 ELSE v.arg[1] >= 0

RECURSIVE IPow(_, _)
IPow(b, e) == IF e = 0 THEN 1 ELSE b * IPow(b, e - 1)

(***************************************************************************)
(* The Alphabet service.  A symbol is its index 0 .. NumSymbols-1 (base(i) *)
(* is symbol i); a k-mer is a sequence of symbols.                         *)
(***************************************************************************)
get_num_strings(k) == IPow(NumSymbols, k)

RECURSIVE kmer_rank(_, _)
kmer_rank(kmer, k) ==
    IF k = 0 THEN 0
    ELSE kmer_rank(kmer, k - 1) * NumSymbols + kmer[k]

\* str advanced to its successor: add one at the last position, carry left,
\* the last string wraps around to the first
RECURSIVE lexicographic_next_from(_, _)
lexicographic_next_from(str, i) ==
    IF i = 0 THEN str
    ELSE LET r == str[i] + 1
         IN  IF r \div NumSymbols > 0
             THEN lexicographic_next_from([str EXCEPT ![i] = r % NumSymbols], i - 1)
             ELSE [str EXCEPT ![i] = r]

lexicographic_next(str) == lexicographic_next_from(str, Len(str))

\* the k-mer of a given rank (used to build input files only)
RECURSIVE KmerOfRank(_, _)
KmerOfRank(r, k) ==
    IF k = 0 THEN <<>>
    ELSE Append(KmerOfRank(r \div NumSymbols, k - 1), r % NumSymbols)

(***************************************************************************)
(* Numbers in text.  A number token is sign, decimal mantissa and decimal  *)
(* exponent: it denotes (-1)^neg * mant * 10^exp.                          *)
(***************************************************************************)
Tok(m, e) == [neg |-> m < 0, mant |-> Abs(m), exp |-> e]

\* operator>>(istream&, float/double&): the value the token denotes
ParseNum(t) ==
    LET s == IF t.neg THEN -1 ELSE 1
    IN  IF t.exp >= 0 THEN Rat(s * t.mant * IPow(10, t.exp), 1)
        ELSE Rat(s * t.mant, IPow(10, -t.exp))

\* number of significant digits operator<< keeps (the stream's precision)
StreamPrecision == 6

\* e with 10^e <= n/d < 10^(e+1), for n/d >= 1
RECURSIVE Exp10Up(_, _)
Exp10Up(n, d) == IF n < 10 * d THEN 0 ELSE 1 + Exp10Up(n, 10 * d)

\* e with 10^e <= n/d < 10^(e+1), for 0 < n/d < 1
RECURSIVE Exp10Down(_, _)
Exp10Down(n, d) == IF 10 * n >= d THEN -1 ELSE Exp10Down(10 * n, d) - 1

\* n/d rounded to the nearest integer, ties to even (n >= 0, d > 0)
RoundDiv(n, d) ==
    LET q == n \div d
        r == n % d
    IN  IF 2 * r > d \/ (2 * r = d /\ q % 2 = 1) THEN q + 1 ELSE q

RECURSIVE StripZeros(_, _)
StripZeros(m, e) ==
    IF m # 0 /\ m % 10 = 0 THEN StripZeros(m \div 10, e + 1)
    ELSE [mant |-> m, exp |-> e]

\* operator<<(ostream&, float/double) at the default precision: the value
\* rounded to StreamPrecision significant digits, trailing zeros removed
FormatNum(a) ==
    IF a[1] = 0 THEN [neg |-> FALSE, mant |-> 0, exp |-> 0]
    ELSE LET n == Abs(a[1])
             d == a[2]
             e == IF n >= d THEN Exp10Up(n, d) ELSE Exp10Down(n, d)
             sh == StreamPrecision - 1 - e
             m0 == IF sh >= 0 THEN RoundDiv(n * IPow(10, sh), d)
                   ELSE RoundDiv(n, d * IPow(10, -sh))
             z == StripZeros(m0, -sh)
         IN  [neg |-> a[1] < 0, mant |-> z.mant, exp |-> z.exp]

(***************************************************************************)
(* PoreModelStateParams and PoreModel.                                     *)
(***************************************************************************)
Zero == RInt(0)

\* a vector element created by resize(): every field zero
DefaultStateParams ==
    [level_mean |-> Zero, level_stdv |-> Zero, sd_mean |-> Zero,
     sd_stdv |-> Zero, sd_lambda |-> Zero]

\* the is_scaled member of a PoreModel no constructor has baked
UnbakedFlag == FALSE

\* a PoreModel before any constructor body has run; u is the indeterminate
\* content of the members the constructor never assigns
RawModel(u) ==
    [name |-> <<>>, k |-> 0, shift_offset |-> Zero,
     states |-> <<>>, scaled_states |-> <<>>, scaled_params |-> <<>>,
     is_scaled |-> UnbakedFlag,
     scale |-> u, shift |-> u, var |-> u, drift |-> u, scale_sd |-> u, var_sd |-> u]

\* the scaled state of one k-mer (the body of the loop of
\* bake_gaussian_parameters, after sd_lambda of st has been derived)
ScaledState(st, m) ==
    LET lm == RAdd(RMul(st.level_mean, m.scale), m.shift)
        ls == RMul(st.level_stdv, m.var)
        sm == RMul(st.sd_mean, m.scale_sd)
        sl == RMul(st.sd_lambda, m.var_sd)
    IN  [level_mean |-> lm, level_stdv |-> ls, sd_mean |-> sm, sd_lambda |-> sl,
         sd_stdv |-> Sqrt(RDiv(Pow3(sm), sl)),
         level_log_stdv |-> Log(ls), sd_log_lambda |-> Log(sl)]

\* the derived sd_lambda parameter of one k-mer
SdLambda(st) == RDiv(Pow3(st.sd_mean), Pow2(st.sd_stdv))

\* a bake that writes the scaled level_mean back into the base table
bake_gaussian_parameters_inplace(m) ==
    LET n == Len(m.states)
        st == [i \in 1 .. n |-> [m.states[i] EXCEPT !.sd_lambda = SdLambda(m.states[i])]]
        sc == [i \in 1 .. n |-> ScaledState(st[i], m)]
    IN  [m EXCEPT !.states = [i \in 1 .. n |-> [st[i] EXCEPT !.level_mean = sc[i].level_mean]],
                  !.scaled_states = sc,
                  !.scaled_params =
                      [i \in 1 .. n |-> [mean |-> sc[i].level_mean,
                                         stdv |-> sc[i].level_stdv,
                                         log_stdv |-> sc[i].level_log_stdv]],
                  !.is_scaled = TRUE]

bake_gaussian_parameters(m) ==
    LET n == Len(m.states)
        st == [i \in 1 .. n |-> [m.states[i] EXCEPT !.sd_lambda = SdLambda(m.states[i])]]
        sc == [i \in 1 .. n |-> ScaledState(st[i], m)]
    IN  [m EXCEPT !.states = st,
                  !.scaled_states = sc,
                  !.scaled_params =
                      [i \in 1 .. n |-> [mean |-> sc[i].level_mean,
                                         stdv |-> sc[i].level_stdv,
                                         log_stdv |-> sc[i].level_log_stdv]],
                  !.is_scaled = TRUE]

\* an update_states that replaces the table and does not bake again
update_states_vector_stale(m, otherstates) == [m EXCEPT !.states = otherstates]

\* update_states(const std::vector<PoreModelStateParams>&)
update_states_vector(m, otherstates) ==
    LET m1 == [m EXCEPT !.states = otherstates]
    IN  IF m1.is_scaled THEN bake_gaussian_parameters(m1) ELSE m1

\* update_states(const PoreModel&); the result is the pair <<this, other>>
update_states_model(m, o) ==
    LET m1 == [m EXCEPT !.k = o.k, !.shift = RAdd(m.shift, o.shift_offset)]
    IN  <<update_states_vector(m1, o.states), o>>

(***************************************************************************)
(* Text model files.  A line is a record; its type is what the parser's    *)
(* tests on the line text decide.                                          *)
(***************************************************************************)
NameLine(n) == [type |-> "model_name", text |-> n, kmer |-> <<>>, nums |-> <<>>]

OffsetLine(t) == [type |-> "shift_offset", text |-> <<>>, kmer |-> <<>>, nums |-> <<t>>]

ColumnLine == [type |-> "kmer_header", text |-> <<>>, kmer |-> <<>>, nums |-> <<>>]

DataLine(kmer, toks) == [type |-> "data", text |-> <<>>, kmer |-> kmer, nums |-> toks]

\* the parser's locals and the members it assigns, after line i - 1
RECURSIVE ReadLines(_, _, _, _)
ReadLines(lines, i, st, u) ==
    IF i > Len(lines) THEN st
    ELSE LET ln == lines[i] IN
         IF ln.type = "model_name"
         THEN ReadLines(lines, i + 1,
                        [st EXCEPT !.name = IF ln.text = <<>> THEN @ ELSE ln.text], u)
         ELSE IF ln.type = "shift_offset"
         THEN ReadLines(lines, i + 1,
                        [st EXCEPT !.shift_offset = ParseNum(ln.nums[1])], u)
         ELSE IF ln.type = "kmer_header"
         THEN ReadLines(lines, i + 1, st, u)
         ELSE LET params == [level_mean |-> ParseNum(ln.nums[1]),
                             level_stdv |-> ParseNum(ln.nums[2]),
                             sd_mean |-> ParseNum(ln.nums[3]),
                             sd_stdv |-> ParseNum(ln.nums[4]),
                             sd_lambda |-> u]
                  k1 == IF st.firstKmer THEN Len(ln.kmer) ELSE st.k
                  s1 == IF st.firstKmer
                        THEN [j \in 1 .. get_num_strings(k1) |-> DefaultStateParams]
                        ELSE st.states
              IN  ReadLines(lines, i + 1,
                            [st EXCEPT !.k = k1,
                                       !.states = [s1 EXCEPT ![kmer_rank(ln.kmer, k1) + 1] = params],
                                       !.firstKmer = FALSE,
                                       !.ninserted = @ + 1], u)

\* PoreModel(const std::string filename, const Alphabet&).  u is the
\* indeterminate content of what the constructor never assigns (sd_lambda of
\* the local params, the coefficients), nd whether assert() is compiled out.
TextCtor(lines, u, nd) ==
    LET st == ReadLines(lines, 1,
                        [name |-> <<>>, shift_offset |-> Zero, k |-> 0, states |-> <<>>,
                         firstKmer |-> TRUE, ninserted |-> 0], u)
        m == [RawModel(u) EXCEPT !.name = st.name, !.k = st.k,
                                 !.shift_offset = st.shift_offset, !.states = st.states]
    IN  IF st.ninserted = Len(st.states) \/ nd
        THEN [outcome |-> "returned", model |-> m]
        ELSE [outcome |-> "abort", model |-> RawModel(u)]

\* the lines write() emits
RECURSIVE WriteRows(_, _, _)
WriteRows(states, ki, curr_kmer) ==
    IF ki > Len(states) THEN <<>>
    ELSE <<DataLine(curr_kmer, <<FormatNum(states[ki].level_mean),
                                 FormatNum(states[ki].level_stdv),
                                 FormatNum(states[ki].sd_mean),
                                 FormatNum(states[ki].sd_stdv)>>)>>
         \o WriteRows(states, ki + 1, lexicographic_next(curr_kmer))

\* write(filename, alphabet, modelname)
write(m, modelname) ==
    LET outmodelname == IF modelname = <<>> THEN m.name ELSE modelname
    IN  <<NameLine(outmodelname), OffsetLine(FormatNum(m.shift_offset))>>
        \o WriteRows(m.states, 1, [i \in 1 .. m.k |-> 0])

(***************************************************************************)
(* The container constructor.                                              *)
(***************************************************************************)
Leader ==
    <<"/", "o", "p", "t", "/", "c", "h", "i", "m", "a", "e", "r", "a", "/",
      "m", "o", "d", "e", "l", "/">>

\* std::string::find: the first 0-based position where pat occurs in s,
\* or -1 (npos)
StrFind(s, pat) ==
    LET hits == {p \in 0 .. (Len(s) - Len(pat)) : SubSeq(s, p + 1, p + Len(pat)) = pat}
    IN  IF hits = {} THEN -1
        ELSE CHOOSE p \in hits : \A q \in hits : p <= q

\* std::replace(name.begin(), name.end(), '/', '_')
ReplaceSlash(s) == [i \in 1 .. Len(s) |-> IF s[i] = "/" THEN "_" ELSE s[i]]

\* "Read and shorten the model name"
ModelName(temp_name) ==
    LET lp == StrFind(temp_name, Leader)
    IN  ReplaceSlash(IF lp = -1 THEN temp_name
                     ELSE SubSeq(temp_name, Len(Leader) + 1, Len(temp_name)))

RECURSIVE CopyEntries(_, _, _, _)
CopyEntries(entries, mi, states, k) ==
    IF mi > Len(entries) THEN states
    ELSE LET curr == entries[mi]
             rank == kmer_rank(curr.kmer, k)
         IN  CopyEntries(entries, mi + 1,
                         [states EXCEPT ![rank + 1] =
                             [level_mean |-> curr.level_mean, level_stdv |-> curr.level_stdv,
                              sd_mean |-> curr.sd_mean, sd_stdv |-> curr.sd_stdv,
                              sd_lambda |-> Zero]],
                         k)

\* PoreModel(fast5::File*, const size_t strand, const Alphabet&)
ContainerCtor(entries, params, path, u) ==
    LET k == Len(entries[1].kmer)
        s0 == [j \in 1 .. get_num_strings(k) |-> DefaultStateParams]
        m == [RawModel(u) EXCEPT !.k = k,
                                 !.states = CopyEntries(entries, 1, s0, k),
                                 !.drift = params.drift, !.scale = params.scale,
                                 !.scale_sd = params.scale_sd, !.shift = params.shift,
                                 !.var = params.var, !.var_sd = params.var_sd,
                                 !.shift_offset = Zero]
    IN  [bake_gaussian_parameters(m) EXCEPT !.name = ModelName(path)]

(***************************************************************************)
(* Inputs.                                                                 *)
(***************************************************************************)
\* the values an indeterminate (never assigned) float or double may hold
Indeterminate == {Zero, RInt(3)}

\* the four number tokens of the data line of rank r in a table variant;
\* variant "p" carries seven significant digits
RowToks(v, r) ==
    IF v = "a" THEN <<Tok(50 + r, 0), Tok(1, 0), Tok(2, 0), Tok(1, 0)>>
    ELSE IF v = "b" THEN <<Tok(60 + 2 * r, 0), Tok(15, -1), Tok(1 + (r % 2), 0), Tok(2, 0)>>
    ELSE <<Tok(1000001 + r, 0), Tok(1, 0), Tok(2, 0), Tok(1, 0)>>

Rows(k, v) ==
    [r \in 1 .. get_num_strings(k) |-> DataLine(KmerOfRank(r - 1, k), RowToks(v, r - 1))]

Reverse(s) == [i \in 1 .. Len(s) |-> s[Len(s) + 1 - i]]

\* the data lines after a defect: a line dropped, a line whose k-mer repeats
\* that of the first line, or a line appended a second time
Mutate(rows, kind, at) ==
    IF kind = "drop" THEN SubSeq(rows, 1, at - 1) \o SubSeq(rows, at + 1, Len(rows))
    ELSE IF kind = "dup" THEN [rows EXCEPT ![at].kmer = rows[1].kmer]
    ELSE IF kind = "extra" THEN Append(rows, rows[at])
    ELSE rows

Mutations(k) ==
    {[kind |-> "none", at |-> 1]}
    \cup {[kind |-> "drop", at |-> i] : i \in 1 .. get_num_strings(k)}
    \cup {[kind |-> "dup", at |-> i] : i \in 2 .. get_num_strings(k)}
    \cup {[kind |-> "extra", at |-> i] : i \in 1 .. get_num_strings(k)}

\* the header lines of the input files: name, shift offset and column
\* header; no header line at all; a shift offset of seven significant digits
Headers ==
    {<<NameLine(<<"r", "7">>), OffsetLine(Tok(5, -1)), ColumnLine>>,
     <<>>,
     <<OffsetLine(Tok(1000001, 0)), NameLine(<<"r", "9">>)>>}

FileSrc(lines) == [type |-> "file", lines |-> lines, entries |-> <<>>, path |-> <<>>]

NoSrc == [type |-> "none", lines |-> <<>>, entries |-> <<>>, path |-> <<>>]

FilesOfK(k) ==
    {FileSrc(h \o Mutate(IF desc THEN Reverse(Rows(k, v)) ELSE Rows(k, v), mu.kind, mu.at)) :
        h \in Headers, desc \in BOOLEAN, v \in {"a", "b", "p"}, mu \in Mutations(k)}

InputFiles == UNION {FilesOfK(k) : k \in 1 .. MaxK}

NumDataLines(lines) == Cardinality({i \in 1 .. Len(lines) : lines[i].type = "data"})

DataIdx(lines) == {i \in 1 .. Len(lines) : lines[i].type = "data"}

\* the k-mer length the first data line fixes
FileK(lines) == Len(lines[CHOOSE i \in DataIdx(lines) : \A j \in DataIdx(lines) : i <= j].kmer)

HasDuplicate(lines) ==
    \E i, j \in DataIdx(lines) : i < j /\ lines[i].kmer = lines[j].kmer

\* containers: the embedded table, the calibration coefficients and the
\* recorded model-file path
Coeffs(scale, shift, var, scale_sd, var_sd) ==
    [scale |-> scale, shift |-> shift, var |-> var, drift |-> Zero,
     scale_sd |-> scale_sd, var_sd |-> var_sd]

One == RInt(1)

CoeffChoices ==
    {Coeffs(One, Zero, One, One, One),
     Coeffs(RInt(2), One, Rat(1, 2), RInt(3), RInt(2)),
     Coeffs(One, One, One, One, Zero),
     Coeffs(One, One, One, One, RInt(-1))}

Entries(k, v) ==
    [r \in 1 .. get_num_strings(k) |->
        LET t == RowToks(v, r - 1)
        IN  [kmer |-> KmerOfRank(r - 1, k),
             level_mean |-> ParseNum(t[1]), level_stdv |-> ParseNum(t[2]),
             sd_mean |-> ParseNum(t[3]), sd_stdv |-> ParseNum(t[4])]]

ContainerSrc(entries, params, path) ==
    [type |-> "container", lines |-> <<>>, entries |-> entries, params |-> params,
     path |-> path]

PathLeading == Leader \o <<"r", "7", "/", "t">>

PathPlain == <<"r", "7", "/", "t">>

PathInside == <<"/", "d">> \o Leader \o <<"t">>

PathShort == <<"/", "o", "p", "t", "/", "x">>

Paths == {PathLeading, PathPlain, PathInside, PathShort}

Containers ==
    {ContainerSrc(Reverse(Entries(k, "b")), c, PathLeading) : k \in 1 .. MaxK, c \in CoeffChoices}
    \cup {ContainerSrc(Entries(1, "a"), Coeffs(One, Zero, One, One, One), p) : p \in Paths}

\* the files the model under test is loaded from in the life-cycle runs
LifeFiles ==
    {FileSrc(<<NameLine(<<"r", "7">>), ColumnLine>> \o Rows(k, "a")) : k \in 1 .. MaxK}

\* the models passed to update_states(other): loaded from text files
OtherFiles ==
    {<<OffsetLine(Tok(5, -1))>> \o Rows(k, "b") : k \in 1 .. MaxK}
    \cup {<<OffsetLine(Tok(-1, 0))>> \o Rows(1, "a")}

OtherModels ==
    {TextCtor(f, u, FALSE).model : f \in OtherFiles, u \in Indeterminate}
    \cup {ContainerCtor(Entries(1, "b"), Coeffs(One, Zero, One, One, One), PathPlain, Zero)}

\* the vectors passed to update_states(states)
StateVectors ==
    {TextCtor(Rows(k, "b"), Zero, FALSE).model.states : k \in 1 .. MaxK}

(***************************************************************************)
(* The state machine.  Spec runs the life cycle of one model: a            *)
(* constructor, then bake_gaussian_parameters and update_states calls.     *)
(* SpecIO runs the text round trip: parse a file, write, parse again.      *)
(***************************************************************************)
NoHist == <<"none", "none">>

NoReparsed == [outcome |-> "none", model |-> RawModel(Zero)]

NoWritten == [modelname |-> <<>>, lines |-> <<>>]

Snapshot == [model |-> model, other |-> other]

Init ==
    /\ pc = "new"
    /\ ndebug = FALSE
    /\ src = NoSrc
    /\ result = "none"
    /\ model = RawModel(Zero)
    /\ other \in OtherModels
    /\ written = NoWritten
    /\ reparsed = NoReparsed
    /\ hist = NoHist
    /\ pre = [model |-> RawModel(Zero), other |-> other]
    /\ nops = 0

ConstructFromText ==
    /\ pc = "new"
    /\ \E f \in LifeFiles, u \in Indeterminate :
          LET r == TextCtor(f.lines, u, ndebug)
          IN  /\ src' = f
              /\ result' = r.outcome
              /\ model' = r.model
    /\ pc' = "live"
    /\ hist' = <<"ctor_text", "none">>
    /\ pre' = Snapshot
    /\ UNCHANGED <<ndebug, other, written, reparsed, nops>>

ConstructFromContainer ==
    /\ pc = "new"
    /\ \E c \in Containers, u \in Indeterminate :
          /\ src' = c
          /\ model' = ContainerCtor(c.entries, c.params, c.path, u)
    /\ result' = "returned"
    /\ pc' = "live"
    /\ hist' = <<"ctor_container", "none">>
    /\ pre' = Snapshot
    /\ UNCHANGED <<ndebug, other, written, reparsed, nops>>

Bake ==
    /\ pc = "live"
    /\ nops < MaxOps
    /\ model' = bake_gaussian_parameters(model)
    /\ hist' = <<"bake", hist[1]>>
    /\ pre' = Snapshot
    /\ nops' = nops + 1
    /\ UNCHANGED <<pc, ndebug, src, result, other, written, reparsed>>

UpdateStatesModel ==
    /\ pc = "live"
    /\ nops < MaxOps
    /\ LET r == update_states_model(model, other)
       IN  /\ model' = r[1]
           /\ other' = r[2]
    /\ hist' = <<"update_model", hist[1]>>
    /\ pre' = Snapshot
    /\ nops' = nops + 1
    /\ UNCHANGED <<pc, ndebug, src, result, written, reparsed>>

UpdateStatesVector ==
    /\ pc = "live"
    /\ nops < MaxOps
    /\ \E v \in StateVectors : model' = update_states_vector(model, v)
    /\ hist' = <<"update_vector", hist[1]>>
    /\ pre' = Snapshot
    /\ nops' = nops + 1
    /\ UNCHANGED <<pc, ndebug, src, result, other, written, reparsed>>

Next ==
    \/ ConstructFromContainer
    \/ ConstructFromText
    \/ Bake
    \/ UpdateStatesModel
    \/ UpdateStatesVector

Spec == Init /\ [][Next]_vars

InitIO ==
    /\ pc = "start"
    /\ ndebug \in BOOLEAN
    /\ src \in InputFiles
    /\ result = "none"
    /\ model = RawModel(Zero)
    /\ other = RawModel(Zero)
    /\ written = NoWritten
    /\ reparsed = NoReparsed
    /\ hist = NoHist
    /\ pre = [model |-> RawModel(Zero), other |-> RawModel(Zero)]
    /\ nops = 0

ParseFile ==
    /\ pc = "start"
    /\ \E u \in Indeterminate :
          LET r == TextCtor(src.lines, u, ndebug)
          IN  /\ result' = r.outcome
              /\ model' = r.model
    /\ pc' = "parsed"
    /\ UNCHANGED <<ndebug, src, other, written, reparsed, hist, pre, nops>>

WriteFile ==
    /\ pc = "parsed"
    /\ result = "returned"
    /\ \E modelname \in {<<>>, <<"x">>} :
          written' = [modelname |-> modelname, lines |-> write(model, modelname)]
    /\ pc' = "written"
    /\ UNCHANGED <<ndebug, src, result, model, other, reparsed, hist, pre, nops>>

ReparseFile ==
    /\ pc = "written"
    /\ \E u \in Indeterminate :
          LET r == TextCtor(written.lines, u, ndebug)
          IN  reparsed' = r
    /\ pc' = "reparsed"
    /\ UNCHANGED <<ndebug, src, result, model, other, written, hist, pre, nops>>

NextIO ==
    \/ ParseFile
    \/ WriteFile
    \/ ReparseFile

SpecIO == InitIO /\ [][NextIO]_vars

(***************************************************************************)
(* Properties of the text constructor and of write(), under SpecIO.        *)
(***************************************************************************)
ValidTable(lines) ==
    /\ NumDataLines(lines) = get_num_strings(FileK(lines))
    /\ ~HasDuplicate(lines)

\* C1: a text file whose number of data lines differs from A^k makes the
\* constructor fail with a recoverable ValidationError: the process is not
\* aborted and no model is returned.
C1_CountMismatchIsValidationError ==
    (pc # "start" /\ NumDataLines(src.lines) # get_num_strings(FileK(src.lines)))
        => (result = "ValidationError" /\ model = RawModel(Zero))

\* C2: a text file with exactly A^k data lines in which a k-mer appears
\* twice makes the constructor fail with a ValidationError instead of
\* returning a model one of whose ranks holds default parameters.
C2_DuplicateIsValidationError ==
    (pc # "start" /\ NumDataLines(src.lines) = get_num_strings(FileK(src.lines))
                  /\ HasDuplicate(src.lines))
        => (result = "ValidationError"
            /\ ~\E i \in 1 .. Len(model.states) : model.states[i] = DefaultStateParams)

SameBase(a, b) ==
    /\ a.level_mean = b.level_mean
    /\ a.level_stdv = b.level_stdv
    /\ a.sd_mean = b.sd_mean
    /\ a.sd_stdv = b.sd_stdv

\* C4: parsing a valid table (A^k distinct k-mer rows), writing it with no
\* name override and parsing what was written gives a model with the same
\* k, name, shift_offset and the same four base parameters at every rank;
\* row i of the written file carries the k-mer of rank i.
C4_RoundTrip ==
    (pc = "reparsed" /\ ValidTable(src.lines) /\ written.modelname = <<>>)
        => /\ reparsed.outcome = "returned"
           /\ reparsed.model.k = model.k
           /\ reparsed.model.name = model.name
           /\ reparsed.model.shift_offset = model.shift_offset
           /\ Len(reparsed.model.states) = Len(model.states)
           /\ \A i \in 1 .. Len(model.states) :
                 SameBase(reparsed.model.states[i], model.states[i])
           /\ \A i \in DataIdx(written.lines) :
                 kmer_rank(written.lines[i].kmer, model.k) = i - 3

C5_UpdateStatesModel ==
    hist[1] = "update_model" =>
        /\ model.shift = RAdd(pre.model.shift, pre.other.shift_offset)
        /\ model.states = pre.other.states
        /\ model.k = pre.other.k
        /\ model.scale = pre.model.scale
        /\ model.var = pre.model.var
        /\ model.drift = pre.model.drift
        /\ model.scale_sd = pre.model.scale_sd
        /\ model.var_sd = pre.model.var_sd
        /\ other.shift_offset = pre.other.shift_offset

\* C6: once a constructor has returned, every rank i has
\* states[i].sd_lambda = states[i].sd_mean^3 / states[i].sd_stdv^2.
C6_MethodOfMoments ==
    pc = "live" =>
        \A i \in 1 .. Len(model.states) :
            model.states[i].sd_lambda = SdLambda(model.states[i])

\* C7: a second bake_gaussian_parameters call right after a first leaves
\* the whole model as the first call left it.
C7_BakeIdempotent ==
    hist = <<"bake", "bake">> => model = pre.model

\* two bakes in a row on a model whose calibration is not the identity
C7_Witness ==
    /\ hist = <<"bake", "bake">>
    /\ model.is_scaled
    /\ model.scale # One
    /\ model.shift # Zero
    /\ Len(model.scaled_states) > 1

\* C8: once a constructor has returned, states.size() = A^k for the
\* model's current k.
C8_TableSize ==
    pc = "live" => Len(model.states) = get_num_strings(model.k)

\* some rank's scaled sd_lambda, states[i].sd_lambda * var_sd, is zero or
\* negative
LambdaAnomaly(m) ==
    \E i \in 1 .. Len(m.states) :
        LET sl == RMul(m.states[i].sd_lambda, m.var_sd)
        IN  IsFiniteR(sl) /\ sl[1] <= 0

\* C9: a bake_gaussian_parameters call that meets a zero or negative scaled
\* sd_lambda does not complete with is_scaled true and a value that is not
\* finite stored.
C9_AnomalySurfaced ==
    (hist[1] = "bake" /\ LambdaAnomaly(model)) =>
        ~(/\ model.is_scaled
          /\ \E i \in 1 .. Len(model.scaled_states) :
                ~IsFiniteFn(model.scaled_states[i].sd_log_lambda))

IsPrefix(pat, s) == Len(pat) <= Len(s) /\ SubSeq(s, 1, Len(pat)) = pat

\* C10: the name the container constructor derives from path p is p without
\* the installation prefix when p begins with it and p otherwise, with every
\* '/' replaced by '_'.
C10_NameDerivation ==
    (pc = "live" /\ src.type = "container") =>
        /\ model.name =
              ReplaceSlash(IF IsPrefix(Leader, src.path)
                           THEN SubSeq(src.path, Len(Leader) + 1, Len(src.path))
                           ELSE src.path)
        /\ \A i \in 1 .. Len(model.name) : model.name[i] # "/"

====
